---------------------------- MODULE Spec2Model ----------------------------
(*
  ESKRIM (src/eskrim/eskrim.py): the sampling pass (fastq_reader and
  subsample_fastq_files), what main does with its result, and the scan of
  count_mercy_kmers_aux.

  Text is a sequence of one-character strings (a word that is never cut, a
  column name for one, stands as one string); a line of a file keeps its
  terminating "\n".  The specifications share the variables:
    Spec       main from the sampling pass on, over every input within the
               bounds, one action per record read, with the usual command
               line and a counting engine that works;
    SpecMain   main from the command line on, over command lines and
               engines that may fail, with a few inputs;
    SpecPool   main from the call of count_mercy_kmers on, one action per
               chunk taken or finished by a worker of the pool;
    SpecMercy  count_mercy_kmers_aux over a chunk of reads and an index, one
               action per window queried.
*)
EXTENDS Integers, Sequences, FiniteSets, TLC

\* ------------------------------------------------------------------ bounds

\* Records written in the input files, all files together.
MaxRecords == 3

\* Largest -r TARGET_NUM_READS tried (the smallest is 0).
MaxTarget == 2

\* The -l READ_LENGTH of the run.
ReadLength == 3

\* ------------------------------------------------------------------- text

NL == "\n"

Bases == <<"A", "C", "G", "T">>

\* n bases, cycling through A C G T from the base numbered first.
Dna(first, n) == [i \in 1..n |-> Bases[((first + i - 2) % 4) + 1]]

Quals(n) == [i \in 1..n |-> "I"]

Digits == <<"1", "2", "3", "4", "5", "6", "7", "8", "9">>

\* str.rstrip("\n"): every trailing newline is removed.
RECURSIVE RStrip(_)
RStrip(s) ==
    IF s # <<>> /\ s[Len(s)] = NL THEN RStrip(SubSeq(s, 1, Len(s) - 1)) ELSE s

\* s[0:n] of Python, for n >= 0.
Slice(s, n) == SubSeq(s, 1, IF n < Len(s) THEN n ELSE Len(s))

\* "N" in seq
HasN(s) == \E i \in DOMAIN s : s[i] = "N"

RECURSIVE Flatten(_)
Flatten(ss) == IF ss = <<>> THEN <<>> ELSE Head(ss) \o Flatten(Tail(ss))

TAB == "\t"

DecimalDigits == <<"0", "1", "2", "3", "4", "5", "6", "7", "8", "9">>

RECURSIVE StrNat(_)
StrNat(n) ==
    IF n < 10 THEN <<DecimalDigits[n + 1]>>
    ELSE StrNat(n \div 10) \o <<DecimalDigits[(n % 10) + 1]>>

\* str(n) for an integer.
Str(n) == IF n < 0 THEN <<"-">> \o StrNat(0 - n) ELSE StrNat(n)

IsDigit(c) == \E d \in DOMAIN DecimalDigits : DecimalDigits[d] = c

DigitValue(c) == (CHOOSE d \in DOMAIN DecimalDigits : DecimalDigits[d] = c) - 1

RECURSIVE NatOf(_)
NatOf(digits) ==
    IF digits = <<>> THEN 0
    ELSE 10 * NatOf(SubSeq(digits, 1, Len(digits) - 1)) + DigitValue(digits[Len(digits)])

\* int(text): ok is FALSE where Python raises ValueError.
ParseInt(text) ==
    LET negative == text # <<>> /\ text[1] = "-"
        digits == IF negative THEN Tail(text) ELSE text
    IN  IF digits = <<>> \/ \E i \in DOMAIN digits : ~IsDigit(digits[i])
        THEN [ok |-> FALSE, val |-> 0]
        ELSE [ok |-> TRUE, val |-> IF negative THEN 0 - NatOf(digits) ELSE NatOf(digits)]

\* sep.join(fields)
RECURSIVE Join(_, _)
Join(sep, fields) ==
    IF fields = <<>> THEN <<>>
    ELSE IF Len(fields) = 1 THEN fields[1]
    ELSE fields[1] \o <<sep>> \o Join(sep, Tail(fields))

\* text.split(sep): the fields between the separators, empty ones kept.
RECURSIVE Split(_, _)
Split(text, sep) ==
    LET at == { i \in DOMAIN text : text[i] = sep }
    IN  IF at = {} THEN <<text>>
        ELSE LET first == CHOOSE i \in at : \A j \in at : i <= j
             IN  <<SubSeq(text, 1, first - 1)>>
                     \o Split(SubSeq(text, first + 1, Len(text)), sep)

IsSpace(c) == c \in {" ", TAB, NL}

\* text.split(): the words between runs of white space.
RECURSIVE SplitWs(_)
SplitWs(text) ==
    IF text = <<>> THEN <<>>
    ELSE IF IsSpace(text[1]) THEN SplitWs(Tail(text))
    ELSE LET spaces == { i \in DOMAIN text : IsSpace(text[i]) }
             stop == IF spaces = {} THEN Len(text) + 1
                     ELSE CHOOSE i \in spaces : \A j \in spaces : i <= j
         IN  <<SubSeq(text, 1, stop - 1)>> \o SplitWs(SubSeq(text, stop, Len(text)))

Min(a, b) == IF a < b THEN a ELSE b

\* The lines of a text, each with its "\n", as the iteration over a file
\* gives them; a last line may lack it.
RECURSIVE Lines(_)
Lines(text) ==
    IF text = <<>> THEN <<>>
    ELSE LET ends == { i \in DOMAIN text : text[i] = NL }
             stop == IF ends = {} THEN Len(text)
                     ELSE CHOOSE i \in ends : \A j \in ends : i <= j
         IN  <<SubSeq(text, 1, stop)>> \o Lines(SubSeq(text, stop + 1, Len(text)))

\* ------------------------------------------------------------- input files

\* What a record of an input file may hold: its sequence and quality lines.
\*   long    longer than READ_LENGTH, to be trimmed
\*   exact   READ_LENGTH bases, with a quality line shorter than the sequence
\*   nfull   READ_LENGTH bases, one of them N
\*   short   shorter than READ_LENGTH
\*   nshort  shorter than READ_LENGTH, with an N
RecordPool ==
    { [seq |-> Dna(1, ReadLength + 1), qual |-> Quals(ReadLength + 1)],
      [seq |-> Dna(3, ReadLength), qual |-> Quals(ReadLength - 1)],
      [seq |-> [Dna(2, ReadLength) EXCEPT ![ReadLength] = "N"], qual |-> Quals(ReadLength)],
      [seq |-> Dna(4, ReadLength - 1), qual |-> Quals(ReadLength - 1)],
      [seq |-> <<"N">>, qual |-> <<"I">>] }

\* The four lines of the record numbered n.
RecordLines(n, rec) ==
    << <<"@", Digits[n], NL>>, rec.seq \o <<NL>>, <<"+", NL>>, rec.qual \o <<NL>> >>

\* A file: the records numbered from+1 .. from+k, less its last cut lines.
FileOf(recs, from, k, cut) ==
    LET all == Flatten([i \in 1..k |-> RecordLines(from + i, recs[from + i])])
    IN  SubSeq(all, 1, Len(all) - cut)

Cuts(k) == IF k = 0 THEN {0} ELSE 0..3

\* The list of two files that hold the records recs, k1 in the first and k2
\* in the second, each file less its last c1 (c2) lines.
InputFiles(recs, k1, k2, c1, c2) ==
    << FileOf(recs, 0, k1, c1), FileOf(recs, k1, k2, c2) >>

\* ------------------------------------------------------------------- state

VARIABLES
    input_fastq_files,            \* parameters.input_fastq_files: the files' lines
    target_num_reads,             \* parameters.target_num_reads
    target_read_length,           \* parameters.read_length
    fastq_fi,                     \* the FileInput: <<file, lines read of it>>
    total_num_reads,              \* fastq_reader.total_num_reads
    num_Ns_reads_ignored,         \* fastq_reader.num_Ns_reads_ignored
    num_too_short_reads_ignored,  \* fastq_reader.num_too_short_reads_ignored
    selected_reads,               \* the reservoir, a list of FastqEntry
    pc,                           \* where main is
    warned,                       \* the shortfall warnings of lines 249-262 were logged
    output_fastq_file,            \* the lines written to parameters.output_fastq_file
    output_stats_file,            \* the text written to parameters.output_stats_file
    jellyfish_db_file,            \* create_jf_db returned the handle of the index file
    parsed,                       \* history: every record fastq_reader built, in order
    emitted,                      \* history: the indices in parsed of the reads yielded
    selected_from,                \* history: for each slot, the index in parsed of its read
    draws,                        \* history: every random.randrange call
    incl_prob,                    \* for each read yielded, the probability that it is held
    \* count_mercy_kmers_aux
    reads,                        \* the chunk: the sequences of its reads
    jellyfish_db,                 \* the index: canonical k-mer -> occurrence count
    read_length,                  \* params[2]
    kmer_length,                  \* params[3]; in main, parameters.kmer_length
    num_mercy_kmers,              \* the sum returned; in main, what count_mercy_kmers gave
    cur_read,                     \* the place in reads of the read being scanned
    window,                       \* i of line 337
    cur_read_kmers_all_unique,    \* the flag of lines 336-345
    aux_pc,                       \* where count_mercy_kmers_aux is
    queried,                      \* history: for each read, the windows looked up, in order
    credited,                     \* history: for each read scanned, what it added
    \* get_parameters
    argv,                         \* the options of the command line not yet parsed
    sample_name,                  \* parameters.sample_name
    num_threads,                  \* parameters.num_threads
    opened,                       \* the options whose file FileType("w") has opened
    \* the counting engine
    engine,                       \* what jellyfish will do in this run
    calls,                        \* history: the uses made of jellyfish and of the index
    num_distinct_kmers,           \* main's num_distinct_kmers
    num_solid_kmers,              \* main's num_solid_kmers
    \* count_mercy_kmers
    chunk_size,                   \* chunk_size
    next_chunk,                   \* the x of the next chunk of chunks_parameters
    workers,                      \* for each process of the pool, the x of its chunk or -1
    chunks_num_mercy_kmers,       \* the results, in the order the chunks were finished
    summed,                       \* how many of them sum() has taken
    final_num_mercy_kmers         \* the running total of sum()

mercy_vars == << reads, jellyfish_db, read_length, kmer_length, num_mercy_kmers,
                 cur_read, window, cur_read_kmers_all_unique, aux_pc, queried,
                 credited >>

cli_vars == << argv, sample_name, num_threads, opened >>

engine_vars == << engine, calls, num_distinct_kmers, num_solid_kmers >>

pool_vars == << chunk_size, next_chunk, workers, chunks_num_mercy_kmers, summed,
                final_num_mercy_kmers >>

other_vars == << cli_vars, engine_vars, pool_vars >>

vars == << input_fastq_files, target_num_reads, target_read_length, fastq_fi,
           total_num_reads, num_Ns_reads_ignored, num_too_short_reads_ignored,
           selected_reads, pc, warned, output_fastq_file, output_stats_file,
           jellyfish_db_file, parsed, emitted, selected_from, draws, incl_prob,
           mercy_vars, cli_vars, engine_vars, pool_vars >>

\* ---------------------------------------------------------------- FileInput

\* next(fastq_fi): the next line of the current file, or of the first later
\* file that has one; StopIteration (ok = FALSE) once every file is read.
RECURSIVE FiNext(_, _)
FiNext(files, pos) ==
    IF pos[1] > Len(files)
    THEN [ok |-> FALSE, line |-> <<>>, file |-> 0, pos |-> pos]
    ELSE IF pos[2] < Len(files[pos[1]])
         THEN [ok |-> TRUE, line |-> files[pos[1]][pos[2] + 1], file |-> pos[1],
               pos |-> <<pos[1], pos[2] + 1>>]
         ELSE FiNext(files, <<pos[1] + 1, 0>>)

\* One turn of fastq_reader's loop up to the counters: "eof" when the name
\* line is missing, "truncated" when one of the next three is, else the
\* record, with the files its four lines came from.
ReadRecord(files, pos) ==
    LET n == FiNext(files, pos)
        s == FiNext(files, n.pos)
        p == FiNext(files, s.pos)
        q == FiNext(files, p.pos)
        none == [name |-> <<>>, seq |-> <<>>, qual |-> <<>>, files |-> {}]
    IN  IF ~n.ok THEN [status |-> "eof", rec |-> none, pos |-> n.pos]
        ELSE IF ~(s.ok /\ p.ok /\ q.ok)
             THEN [status |-> "truncated", rec |-> none, pos |-> q.pos]
             ELSE [status |-> "record",
                   rec |-> [name |-> RStrip(n.line), seq |-> RStrip(s.line),
                            qual |-> RStrip(q.line),
                            files |-> {n.file, s.file, p.file, q.file}],
                   pos |-> q.pos]

\* ------------------------------------------------------------- fastq_reader

FastqEntry(name, seq, qual) == [name |-> name, seq |-> seq, qual |-> qual]

IsAmbiguous(seq) == HasN(seq)

IsTooShort(seq, length) == Len(seq) < length

\* The entry yielded with its lines left whole.
Untrimmed(rec, length) == FastqEntry(rec.name, rec.seq, rec.qual)

\* The entry yielded for a record that passed both tests.
Trimmed(rec, length) ==
    FastqEntry(rec.name, Slice(rec.seq, length), Slice(rec.qual, length))

\* The two tests in the other order.
OutcomeLengthFirst(rec, length) ==
    IF IsTooShort(rec.seq, length) THEN "short"
    ELSE IF IsAmbiguous(rec.seq) THEN "Ns"
    ELSE "emit"

\* "Ns", "short" or "emit": the branch of lines 207-212 a record takes.
Outcome(rec, length) ==
    IF IsAmbiguous(rec.seq) THEN "Ns"
    ELSE IF IsTooShort(rec.seq, length) THEN "short"
    ELSE "emit"


\* ------------------------------------------------------ subsample_fastq_files

\* The range of random.randrange at line 234: 0 .. DrawRange - 1.
DrawRange(total) == total

\* The new read always put in the first slot.
ReplaceFirstSlot(slots, ind, target, new_read) ==
    IF ind < target THEN [slots EXCEPT ![1] = new_read] ELSE slots

\* The new read put in the slot after the one drawn.
ReplaceNextSlot(slots, ind, target, new_read) ==
    IF ind < target THEN [slots EXCEPT ![((ind + 1) % Len(slots)) + 1] = new_read]
    ELSE slots

\* Lines 235-236: slot ind takes the new read when ind < target_num_reads.
Replace(slots, ind, target, new_read) ==
    IF ind < target THEN [slots EXCEPT ![ind + 1] = new_read] ELSE slots

\* The read yielded put before those the list holds.
FillSlotFront(slots, new_read) == <<new_read>> \o slots

\* Lines 229-231: list() puts the read yielded after those it holds.
FillSlot(slots, new_read) == Append(slots, new_read)

\* Probabilities are pairs <<numerator, denominator>>.
\* A read that is held stays when the draw over 0 .. range-1 misses its slot.
Stays(p, range) == <<p[1] * (range - 1), p[2] * range>>

\* The new read enters when the draw over 0 .. range-1 is below target.
Enters(target, range) == <<target, range>>

\* islice asking for one read more than target_num_reads.
ReadingOneMore ==
    \/ pc = "fill" /\ Len(selected_reads) < target_num_reads + 1
    \/ pc = "replace"

\* fastq_reader is running: under islice while the reservoir fills (line
\* 230), then under the for loop of line 233.
Reading ==
    \/ pc = "fill" /\ Len(selected_reads) < target_num_reads
    \/ pc = "replace"

NextRecord == ReadRecord(input_fastq_files, fastq_fi)

\* count_mercy_kmers_aux has not been called.
MercyIdle ==
    /\ reads = <<>>
    /\ jellyfish_db = <<>>
    /\ read_length = 0
    /\ cur_read = 0
    /\ window = 0
    /\ cur_read_kmers_all_unique = TRUE
    /\ aux_pc = "idle"
    /\ queried = <<>>
    /\ credited = <<>>

\* count_mercy_kmers has not been called.
PoolIdle ==
    /\ chunk_size = 0
    /\ next_chunk = 0
    /\ workers = <<>>
    /\ chunks_num_mercy_kmers = <<>>
    /\ summed = 0
    /\ final_num_mercy_kmers = 0

\* -k, line 116.
DefaultKmerLength == 21

\* -t, line 124.
DefaultNumThreads == 4

\* -n, line 90.
DefaultSampleName == <<"N", "A">>

\* The second line that "jellyfish stats" prints, for a count of n.
StatsLine(n) == <<"Distinct:", " ">> \o Str(n) \o <<NL>>

\* An engine that is installed, builds the index, and gives three counts.
WorkingEngine ==
    [available |-> TRUE, build |-> "ok", distinct |-> StatsLine(3),
     solid |-> StatsLine(2), mercy |-> <<1>>]

\* get_parameters has returned: the options were valid, -s and -o among
\* them, the others left to their defaults.
UsualCommandLine ==
    /\ argv = <<>>
    /\ sample_name = DefaultSampleName
    /\ num_threads = DefaultNumThreads
    /\ kmer_length = DefaultKmerLength
    /\ opened = {"-o", "-s"}

\* No count has been asked of the engine.
NothingCounted ==
    /\ calls = <<>>
    /\ num_distinct_kmers = 0
    /\ num_solid_kmers = 0
    /\ num_mercy_kmers = 0

\* Two input files holding at most MaxRecords records together, each file
\* whole or cut short inside its last record.
Init ==
    /\ \E k1 \in 0..MaxRecords : \E k2 \in 0..(MaxRecords - k1) :
       \E c1 \in Cuts(k1), c2 \in Cuts(k2) :
       \E recs \in [1..(k1 + k2) -> RecordPool] :
          input_fastq_files = InputFiles(recs, k1, k2, c1, c2)
    /\ target_num_reads \in 0..MaxTarget
    /\ target_read_length = ReadLength
    /\ fastq_fi = <<1, 0>>
    /\ total_num_reads = 0
    /\ num_Ns_reads_ignored = 0
    /\ num_too_short_reads_ignored = 0
    /\ selected_reads = <<>>
    /\ pc = "fill"
    /\ warned = FALSE
    /\ output_fastq_file = <<>>
    /\ output_stats_file = <<>>
    /\ jellyfish_db_file = FALSE
    /\ parsed = <<>>
    /\ emitted = <<>>
    /\ selected_from = <<>>
    /\ draws = <<>>
    /\ incl_prob = <<>>
    /\ MercyIdle
    /\ PoolIdle
    /\ UsualCommandLine
    /\ engine = WorkingEngine
    /\ NothingCounted

main_vars == << warned, output_fastq_file, output_stats_file, jellyfish_db_file >>

params == << input_fastq_files, target_num_reads, target_read_length >>

\* Lines 195-196: no name line is left, and the generator returns.  The list
\* of line 229 is then complete; the loop of line 233 is then over.
ReaderStop ==
    LET next == NextRecord
    IN
        /\ Reading
        /\ next.status = "eof"
        /\ fastq_fi' = next.pos
        /\ pc' = IF pc = "fill" THEN "replace" ELSE "post"
        /\ UNCHANGED << params, mercy_vars, other_vars, main_vars, total_num_reads, num_Ns_reads_ignored,
                        num_too_short_reads_ignored, selected_reads, parsed, emitted,
                        selected_from, draws, incl_prob >>

\* Lines 201-203: the files end inside a record, and sys.exit(1) ends the run.
ReaderTruncated ==
    LET next == NextRecord
    IN
        /\ Reading
        /\ next.status = "truncated"
        /\ fastq_fi' = next.pos
        /\ pc' = "exit_truncated"
        /\ UNCHANGED << params, mercy_vars, other_vars, main_vars, total_num_reads, num_Ns_reads_ignored,
                        num_too_short_reads_ignored, selected_reads, parsed, emitted,
                        selected_from, draws, incl_prob >>

\* Lines 205-208: a record with an N is counted and dropped.
RejectNs ==
    LET next == NextRecord
    IN
        /\ Reading
        /\ next.status = "record"
        /\ Outcome(next.rec, target_read_length) = "Ns"
        /\ fastq_fi' = next.pos
        /\ total_num_reads' = total_num_reads + 1
        /\ num_Ns_reads_ignored' = num_Ns_reads_ignored + 1
        /\ parsed' = Append(parsed, next.rec)
        /\ UNCHANGED << params, mercy_vars, other_vars, main_vars, pc, num_too_short_reads_ignored,
                        selected_reads, emitted, selected_from, draws, incl_prob >>

\* Lines 205-210: a record that is too short is counted and dropped.
RejectTooShort ==
    LET next == NextRecord
    IN
        /\ Reading
        /\ next.status = "record"
        /\ Outcome(next.rec, target_read_length) = "short"
        /\ fastq_fi' = next.pos
        /\ total_num_reads' = total_num_reads + 1
        /\ num_too_short_reads_ignored' = num_too_short_reads_ignored + 1
        /\ parsed' = Append(parsed, next.rec)
        /\ UNCHANGED << params, mercy_vars, other_vars, main_vars, pc, num_Ns_reads_ignored,
                        selected_reads, emitted, selected_from, draws, incl_prob >>

\* Lines 205-212 under line 229: the read yielded is appended to the list.
FillReservoir ==
    LET next == NextRecord
    IN
        /\ pc = "fill" /\ Reading
        /\ next.status = "record"
        /\ Outcome(next.rec, target_read_length) = "emit"
        /\ fastq_fi' = next.pos
        /\ total_num_reads' = total_num_reads + 1
        /\ parsed' = Append(parsed, next.rec)
        /\ emitted' = Append(emitted, Len(parsed'))
        /\ selected_reads' =
               FillSlot(selected_reads, Trimmed(next.rec, target_read_length))
        /\ selected_from' = FillSlot(selected_from, Len(parsed'))
        /\ incl_prob' = Append(incl_prob, <<1, 1>>)
        /\ UNCHANGED << params, mercy_vars, other_vars, main_vars, pc, num_Ns_reads_ignored,
                        num_too_short_reads_ignored, draws >>

\* Line 230: islice has yielded target_num_reads reads and asks for no more.
IsliceStop ==
    /\ pc = "fill"
    /\ Len(selected_reads) = target_num_reads
    /\ pc' = "replace"
    /\ UNCHANGED << params, mercy_vars, other_vars, main_vars, fastq_fi, total_num_reads,
                    num_Ns_reads_ignored, num_too_short_reads_ignored,
                    selected_reads, parsed, emitted, selected_from, draws, incl_prob >>

\* Lines 205-212 under lines 233-236: a slot is drawn for the read yielded.
ReplaceRead ==
    LET next == NextRecord
    IN
        /\ pc = "replace"
        /\ next.status = "record"
        /\ Outcome(next.rec, target_read_length) = "emit"
        /\ fastq_fi' = next.pos
        /\ total_num_reads' = total_num_reads + 1
        /\ parsed' = Append(parsed, next.rec)
        /\ emitted' = Append(emitted, Len(parsed'))
        /\ LET range == DrawRange(total_num_reads')
           IN  \E ind \in 0..(range - 1) :
                 /\ selected_reads' =
                        Replace(selected_reads, ind, target_num_reads,
                                Trimmed(next.rec, target_read_length))
                 /\ selected_from' =
                        Replace(selected_from, ind, target_num_reads, Len(parsed'))
                 /\ draws' = Append(draws, [range |-> range, ind |-> ind,
                                            seen |-> Len(emitted')])
                 /\ incl_prob' =
                        Append([i \in DOMAIN incl_prob |-> Stays(incl_prob[i], range)],
                               Enters(target_num_reads, range))
        /\ UNCHANGED << params, mercy_vars, other_vars, main_vars, pc, num_Ns_reads_ignored,
                        num_too_short_reads_ignored >>


sampler_vars == << fastq_fi, total_num_reads, num_Ns_reads_ignored,
                   num_too_short_reads_ignored, selected_reads, parsed, emitted,
                   selected_from, draws, incl_prob >>

\* Shortfall taken as fatal.
SelectedCheckStrict(total, n, target) ==
    IF total = 0 THEN "empty"
    ELSE IF n = 0 \/ n < target THEN "no_reads"
    ELSE "full"

\* Lines 238-249: what subsample_fastq_files makes of the list once the pass
\* is over, from total_num_reads, len(selected_reads) and target_num_reads.
SelectedCheck(total, n, target) ==
    IF total = 0 THEN "empty"
    ELSE IF n = 0 THEN "no_reads"
    ELSE IF n < target THEN "short"
    ELSE "full"

Checked == SelectedCheck(total_num_reads, Len(selected_reads), target_num_reads)

\* Lines 238-240: no record at all was read.
ExitEmptyInput ==
    /\ pc = "post"
    /\ Checked = "empty"
    /\ pc' = "exit_empty"
    /\ UNCHANGED << params, mercy_vars, other_vars, main_vars, sampler_vars >>

\* Lines 242-247: records were read and the list is empty.
ExitNoReads ==
    /\ pc = "post"
    /\ Checked = "no_reads"
    /\ pc' = "exit_no_reads"
    /\ UNCHANGED << params, mercy_vars, other_vars, main_vars, sampler_vars >>

\* Lines 249-264: the list is returned, with warnings when it is short.
ReturnSelected ==
    /\ pc = "post"
    /\ Checked \in {"short", "full"}
    /\ warned' = (Checked = "short")
    /\ pc' = "subsampled"
    /\ UNCHANGED << params, mercy_vars, other_vars, sampler_vars, output_fastq_file,
                    output_stats_file, jellyfish_db_file >>

\* --------------------------------------------------------------------- main

\* The four fields with no newline after the quality.
fastq_formatter_open(fastq_entry) ==
    fastq_entry.name \o <<NL>> \o fastq_entry.seq \o <<NL>> \o <<"+", NL>>
        \o fastq_entry.qual

\* fastq_formatter, line 221.
fastq_formatter(fastq_entry) ==
    fastq_entry.name \o <<NL>> \o fastq_entry.seq \o <<NL>> \o <<"+", NL>>
        \o fastq_entry.qual \o <<NL>>

\* Lines 395-400, with -o given: every selected read is written, in order.
WriteSelectedReads ==
    /\ pc = "subsampled"
    /\ "-o" \in opened
    /\ output_fastq_file' =
           Flatten([i \in DOMAIN selected_reads |-> fastq_formatter(selected_reads[i])])
    /\ pc' = "selected_written"
    /\ UNCHANGED << params, mercy_vars, other_vars, sampler_vars, warned,
                    output_stats_file, jellyfish_db_file >>

\* Line 395, without -o.
SkipSelectedReads ==
    /\ pc = "subsampled"
    /\ "-o" \notin opened
    /\ pc' = "selected_written"
    /\ UNCHANGED << params, mercy_vars, other_vars, sampler_vars, main_vars >>

\* What main leaves alone from line 402 on.
counting_frame == << params, sampler_vars, cli_vars, pool_vars, warned, output_fastq_file,
                     engine, reads, jellyfish_db, read_length, kmer_length, cur_read,
                     window, cur_read_kmers_all_unique, aux_pc, queried, credited >>

\* Lines 267-298, called at line 403: "jellyfish count" is fed the reads and
\* waited for.  When it dies while the reads are written the write raises;
\* otherwise the handle is returned, the exit status of wait() unread.
create_jf_db ==
    /\ pc = "selected_written"
    /\ calls' = Append(calls, "count")
    /\ jellyfish_db_file' = (engine.build # "breaks_pipe")
    /\ pc' = IF engine.build = "breaks_pipe" THEN "raised" ELSE "indexed"
    /\ UNCHANGED << counting_frame, output_stats_file, num_distinct_kmers,
                    num_solid_kmers, num_mercy_kmers >>

\* Lines 308 and 321: int(line.split()[-1]) of the second line printed;
\* ok is FALSE where IndexError or ValueError is raised.
StatsCount(line) ==
    LET words == SplitWs(line)
    IN  IF words = <<>> THEN [ok |-> FALSE, val |-> 0]
        ELSE ParseInt(words[Len(words)])

\* Lines 301-310, called at line 409.
count_distinct_kmers ==
    /\ pc = "indexed"
    /\ calls' = Append(calls, "stats")
    /\ LET n == StatsCount(engine.distinct)
       IN  /\ num_distinct_kmers' = IF n.ok THEN n.val ELSE num_distinct_kmers
           /\ pc' = IF n.ok THEN "distinct_counted" ELSE "raised"
    /\ UNCHANGED << counting_frame, output_stats_file, jellyfish_db_file,
                    num_solid_kmers, num_mercy_kmers >>

\* Lines 313-323, called at line 413.
count_solid_kmers ==
    /\ pc = "distinct_counted"
    /\ calls' = Append(calls, "stats -L 2")
    /\ LET n == StatsCount(engine.solid)
       IN  /\ num_solid_kmers' = IF n.ok THEN n.val ELSE num_solid_kmers
           /\ pc' = IF n.ok THEN "solid_counted" ELSE "raised"
    /\ UNCHANGED << counting_frame, output_stats_file, jellyfish_db_file,
                    num_distinct_kmers, num_mercy_kmers >>

\* Lines 351-368, called at line 417, as one step: the sum of the chunks, or
\* the exception of a worker that could not use the index.
count_mercy_kmers ==
    /\ pc = "solid_counted"
    /\ calls' = Append(calls, "query")
    /\ num_mercy_kmers' = IF engine.mercy # <<>> THEN engine.mercy[1] ELSE num_mercy_kmers
    /\ pc' = IF engine.mercy # <<>> THEN "counted" ELSE "raised"
    /\ UNCHANGED << counting_frame, output_stats_file, jellyfish_db_file,
                    num_distinct_kmers, num_solid_kmers >>

\* Lines 428-442.
StatsHeader ==
    << "sample_name", "total_num_reads", "num_Ns_reads_ignored",
       "num_too_short_reads_ignored", "target_num_reads", "num_selected_reads",
       "read_length", "kmer_length", "num_distinct_kmers", "num_solid_kmers",
       "num_mercy_kmers" >>

\* The target in the place of the number of reads selected.
StatsRowTarget(v) ==
    << v.sample_name, Str(v.total_num_reads), Str(v.num_Ns_reads_ignored),
       Str(v.num_too_short_reads_ignored), Str(v.target_num_reads),
       Str(v.target_num_reads), Str(v.read_length), Str(v.kmer_length),
       Str(v.num_distinct_kmers), Str(v.num_solid_kmers), Str(v.num_mercy_kmers) >>

\* Lines 448-460: the fields of the row, from the values v of the run.
StatsRow(v) ==
    << v.sample_name, Str(v.total_num_reads), Str(v.num_Ns_reads_ignored),
       Str(v.num_too_short_reads_ignored), Str(v.target_num_reads),
       Str(v.num_selected_reads), Str(v.read_length), Str(v.kmer_length),
       Str(v.num_distinct_kmers), Str(v.num_solid_kmers), Str(v.num_mercy_kmers) >>

\* The values main prints at lines 448-460.
StatsValues ==
    [ sample_name |-> sample_name,
      total_num_reads |-> total_num_reads,
      num_Ns_reads_ignored |-> num_Ns_reads_ignored,
      num_too_short_reads_ignored |-> num_too_short_reads_ignored,
      target_num_reads |-> target_num_reads,
      num_selected_reads |-> Len(selected_reads),
      read_length |-> target_read_length,
      kmer_length |-> kmer_length,
      num_distinct_kmers |-> num_distinct_kmers,
      num_solid_kmers |-> num_solid_kmers,
      num_mercy_kmers |-> num_mercy_kmers ]

\* print("\t".join(fields), file=...)
PrintLine(fields) == Join(TAB, fields) \o <<NL>>

\* Lines 426-463: the header and the row are printed and the file is closed.
WriteStats ==
    /\ pc = "counted"
    /\ output_stats_file' =
           PrintLine([c \in DOMAIN StatsHeader |-> <<StatsHeader[c]>>])
           \o PrintLine(StatsRow(StatsValues))
    /\ pc' = "done"
    /\ UNCHANGED << params, mercy_vars, other_vars, sampler_vars, warned,
                    output_fastq_file, jellyfish_db_file >>

Next ==
    \/ ReaderStop
    \/ ReaderTruncated
    \/ RejectNs
    \/ RejectTooShort
    \/ FillReservoir
    \/ IsliceStop
    \/ ReplaceRead
    \/ ExitEmptyInput
    \/ ExitNoReads
    \/ ReturnSelected
    \/ WriteSelectedReads
    \/ create_jf_db
    \/ count_distinct_kmers
    \/ count_solid_kmers
    \/ count_mercy_kmers
    \/ WriteStats

Spec == Init /\ [][Next]_vars


\* ------------------------------------------------- main from its first line

\* Largest number of options on the command line.
MaxArgs == 3

\* multiprocessing.cpu_count() of the machine.
CpuCount == 8

\* choices=range(17, 32, 2), line 115.
KmerChoices == { k \in 17..31 : k % 2 = 1 }

\* The options a command line is made of: -t with no thread, one thread, one
\* more than the machine has, or no number; -k with a valid length, an even
\* one, one too large, or no number; -n with a name that holds a tab; -s and
\* -o with a path.  -i, -l and -r are given and valid on every command line.
ArgPool ==
    { [opt |-> "-t", val |-> v] : v \in { Str(0), Str(1), Str(CpuCount + 1), <<"x">> } }
    \cup { [opt |-> "-k", val |-> v] : v \in { Str(17), Str(18), Str(33) } }
    \cup { [opt |-> "-n", val |-> <<"a", TAB, "b">>] }
    \cup { [opt |-> o, val |-> <<"p">>] : o \in {"-s", "-o"} }

\* The command lines of at most MaxArgs options, no option twice.
CommandLines ==
    { a \in UNION { [1..n -> ArgPool] : n \in 0..MaxArgs } :
        \A i, j \in DOMAIN a : i # j => a[i].opt # a[j].opt }

\* argparse refuses the option: num_threads_type (lines 44-57) for -t, the
\* type and the choices of lines 113-116 for -k.
ArgRefused(a) ==
    LET n == ParseInt(a.val)
    IN  \/ a.opt = "-t" /\ (~n.ok \/ n.val <= 0 \/ n.val > CpuCount)
        \/ a.opt = "-k" /\ (~n.ok \/ n.val \notin KmerChoices)

\* What subsample_fastq_files and the rest of main leave alone of the state
\* of the command line and of the engine.
parse_frame == << params, sampler_vars, main_vars, engine_vars, pool_vars, reads,
                  jellyfish_db, read_length, num_mercy_kmers, cur_read, window,
                  cur_read_kmers_all_unique, aux_pc, queried, credited >>

\* parser.parse_args(), line 157: the options are taken in the order of the
\* command line, each one converted by its type as it is taken; FileType("w")
\* opens the file of -s and of -o, which creates it or empties it; an option
\* that is refused ends the run at once (parser.error, exit status 2).
ParseArg ==
    /\ pc = "args"
    /\ argv # <<>>
    /\ LET a == Head(argv)
       IN  IF ArgRefused(a)
           THEN /\ pc' = "exit_usage"
                /\ UNCHANGED << argv, sample_name, num_threads, kmer_length, opened >>
           ELSE /\ pc' = "args"
                /\ argv' = Tail(argv)
                /\ num_threads' = IF a.opt = "-t" THEN ParseInt(a.val).val ELSE num_threads
                /\ kmer_length' = IF a.opt = "-k" THEN ParseInt(a.val).val ELSE kmer_length
                /\ sample_name' = IF a.opt = "-n" THEN a.val ELSE sample_name
                /\ opened' = IF a.opt \in {"-s", "-o"} THEN opened \cup {a.opt} ELSE opened
    /\ UNCHANGED parse_frame

\* parse_args once every option is taken: -s is required (line 136).
ParseArgsDone ==
    /\ pc = "args"
    /\ argv = <<>>
    /\ pc' = IF "-s" \in opened THEN "check_program" ELSE "exit_usage"
    /\ UNCHANGED << parse_frame, cli_vars, kmer_length >>

\* Lines 36-41, called at line 378; check_fastq_files and random.seed, which
\* follow, only log and seed.
check_program_available ==
    /\ pc = "check_program"
    /\ calls' = Append(calls, "probe")
    /\ pc' = IF engine.available THEN "fill" ELSE "exit_no_program"
    /\ UNCHANGED << params, sampler_vars, main_vars, mercy_vars, cli_vars, pool_vars,
                    engine, num_distinct_kmers, num_solid_kmers >>

\* The engines of a run: one that works; one that is not installed; one
\* whose build dies while it is fed; one whose build fails at the end and
\* leaves a file that answers nothing; one whose build fails and leaves a
\* file that still answers; and three that fail at one of the counts.
Engines ==
    { WorkingEngine,
      [WorkingEngine EXCEPT !.available = FALSE],
      [WorkingEngine EXCEPT !.build = "breaks_pipe"],
      [WorkingEngine EXCEPT !.build = "fails", !.distinct = <<>>, !.solid = <<>>,
                            !.mercy = <<>>],
      [WorkingEngine EXCEPT !.build = "fails"],
      [WorkingEngine EXCEPT !.distinct = <<>>],
      [WorkingEngine EXCEPT !.solid = <<"x", NL>>],
      [WorkingEngine EXCEPT !.mercy = <<>>] }

\* Four records: a short one with an N, a long one, a short one, and one of
\* READ_LENGTH bases.
MainRecords ==
    << [seq |-> <<"N">>, qual |-> <<"I">>],
       [seq |-> Dna(1, ReadLength + 1), qual |-> Quals(ReadLength + 1)],
       [seq |-> Dna(4, ReadLength - 1), qual |-> Quals(ReadLength - 1)],
       [seq |-> Dna(3, ReadLength), qual |-> Quals(ReadLength)] >>

\* The inputs of SpecMain: no record; the first record alone; the four
\* records, two in each file; the same with the last line missing.
MainInputs ==
    { InputFiles(MainRecords, 0, 0, 0, 0), InputFiles(MainRecords, 1, 0, 0, 0),
      InputFiles(MainRecords, 2, 2, 0, 0), InputFiles(MainRecords, 2, 2, 0, 1) }

\* main is entered: nothing is parsed, opened, read or counted.
MainInit ==
    /\ pc = "args"
    /\ argv \in CommandLines
    /\ sample_name = DefaultSampleName
    /\ num_threads = DefaultNumThreads
    /\ kmer_length = DefaultKmerLength
    /\ opened = {}
    /\ engine \in Engines
    /\ NothingCounted
    /\ input_fastq_files \in MainInputs
    /\ target_num_reads = 1
    /\ target_read_length = ReadLength
    /\ fastq_fi = <<1, 0>>
    /\ total_num_reads = 0
    /\ num_Ns_reads_ignored = 0
    /\ num_too_short_reads_ignored = 0
    /\ selected_reads = <<>>
    /\ warned = FALSE
    /\ output_fastq_file = <<>>
    /\ output_stats_file = <<>>
    /\ jellyfish_db_file = FALSE
    /\ parsed = <<>>
    /\ emitted = <<>>
    /\ selected_from = <<>>
    /\ draws = <<>>
    /\ incl_prob = <<>>
    /\ MercyIdle
    /\ PoolIdle

MainNext ==
    \/ ParseArg
    \/ ParseArgsDone
    \/ check_program_available
    \/ SkipSelectedReads
    \/ Next

SpecMain == MainInit /\ [][MainNext]_vars


\* ---------------------------------------------------- count_mercy_kmers_aux

\* Largest number of windows of a read (read_length - kmer_length + 1).
MaxWindows == 3

\* Largest number of reads in the chunk.
MaxChunk == 2

\* Largest occurrence count the index holds.
MaxCount == 2

\* The -k KMER_LENGTH of the scan.
KmerLength == 2

BaseCode(c) == CHOOSE i \in 1..4 : Bases[i] = c

\* The complementary base: A-T, C-G.
Complement(c) == Bases[5 - BaseCode(c)]

ReverseComplement(mer) ==
    [i \in 1..Len(mer) |-> Complement(mer[Len(mer) + 1 - i])]

\* a comes before b in lexicographic order; a and b have the same length.
LexLess(a, b) ==
    \E i \in 1..Len(a) :
        /\ BaseCode(a[i]) < BaseCode(b[i])
        /\ \A j \in 1..(i - 1) : a[j] = b[j]

\* MerDNA.canonicalize(): the smaller of a k-mer and its reverse complement.
Canonical(mer) ==
    IF LexLess(ReverseComplement(mer), mer) THEN ReverseComplement(mer) ELSE mer

\* read.seq[i : i + kmer_length], line 338.
Window(seq, i, k) == SubSeq(seq, i + 1, IF i + k < Len(seq) THEN i + k ELSE Len(seq))

\* jellyfish_db[mer]: the count of a k-mer, 0 for one the index does not hold.
Lookup(db, mer) == IF mer \in DOMAIN db THEN db[mer] ELSE 0

\* The lookup taken as passed when the k-mer occurs at least once.
AllUniqueAfterAtLeastOnce(db, seq, i, k) ==
    Lookup(db, Canonical(Window(seq, i, k))) >= 1

\* Line 340: the flag after the lookup of window i of the read.
AllUniqueAfter(db, seq, i, k) == Lookup(db, Canonical(Window(seq, i, k))) = 1

\* Line 333.
read_num_kmers == read_length - kmer_length + 1

\* The reads a chunk is made of, n bases each: ACGTAC.., CGTACG.., TTTTTT..
MercyPool(n) == { Dna(1, n), Dna(2, n), [i \in 1..n |-> "T"] }

\* The canonical k-mers of the reads of the pool.
PoolMers(n, k) ==
    { Canonical(Window(seq, i, k)) : seq \in MercyPool(n), i \in 0..(n - k) }

MercyInit ==
    /\ kmer_length = KmerLength
    /\ read_length \in (KmerLength - 2)..(KmerLength + MaxWindows - 1)
    /\ \E n \in 1..MaxChunk : reads \in [1..n -> MercyPool(read_length)]
    /\ jellyfish_db \in [PoolMers(read_length, kmer_length) -> 0..MaxCount]
    /\ num_mercy_kmers = 0
    /\ cur_read = 0
    /\ window = 0
    /\ cur_read_kmers_all_unique = TRUE
    /\ aux_pc = "reads"
    /\ queried = <<>>
    /\ credited = <<>>
    \* main is not running
    /\ input_fastq_files = << <<>>, <<>> >>
    /\ target_num_reads = 0
    /\ target_read_length = 0
    /\ fastq_fi = <<1, 0>>
    /\ total_num_reads = 0
    /\ num_Ns_reads_ignored = 0
    /\ num_too_short_reads_ignored = 0
    /\ selected_reads = <<>>
    /\ pc = "idle"
    /\ warned = FALSE
    /\ output_fastq_file = <<>>
    /\ output_stats_file = <<>>
    /\ jellyfish_db_file = FALSE
    /\ parsed = <<>>
    /\ emitted = <<>>
    /\ selected_from = <<>>
    /\ draws = <<>>
    /\ incl_prob = <<>>
    /\ PoolIdle
    /\ argv = <<>>
    /\ sample_name = DefaultSampleName
    /\ num_threads = DefaultNumThreads
    /\ opened = {}
    /\ engine = WorkingEngine
    /\ calls = <<>>
    /\ num_distinct_kmers = 0
    /\ num_solid_kmers = 0

run_vars == << params, sampler_vars, main_vars, pc >>

mercy_params == << reads, jellyfish_db, read_length, kmer_length >>

\* Lines 335-336: the next read of the chunk, its flag set.
NextRead ==
    /\ aux_pc = "reads"
    /\ cur_read < Len(reads)
    /\ cur_read' = cur_read + 1
    /\ cur_read_kmers_all_unique' = TRUE
    /\ window' = 0
    /\ queried' = Append(queried, <<>>)
    /\ aux_pc' = "windows"
    /\ UNCHANGED << run_vars, other_vars, mercy_params, num_mercy_kmers, credited >>

\* Lines 337-343: window i is looked up; a count other than 1 leaves the loop.
QueryWindow ==
    /\ aux_pc = "windows"
    /\ window < read_num_kmers
    /\ cur_read_kmers_all_unique' =
           AllUniqueAfter(jellyfish_db, reads[cur_read], window, kmer_length)
    /\ queried' = [queried EXCEPT ![cur_read] = Append(@, window)]
    /\ IF cur_read_kmers_all_unique'
       THEN window' = window + 1 /\ aux_pc' = "windows"
       ELSE window' = window /\ aux_pc' = "credit"
    /\ UNCHANGED << run_vars, other_vars, mercy_params, num_mercy_kmers, cur_read, credited >>

\* Line 337: no window is left.
WindowsDone ==
    /\ aux_pc = "windows"
    /\ window >= read_num_kmers
    /\ aux_pc' = "credit"
    /\ UNCHANGED << run_vars, other_vars, mercy_params, num_mercy_kmers, cur_read, window,
                    cur_read_kmers_all_unique, queried, credited >>

\* Lines 345-346: a read whose flag is set adds read_num_kmers.
CreditRead ==
    /\ aux_pc = "credit"
    /\ LET add == IF cur_read_kmers_all_unique THEN read_num_kmers ELSE 0
       IN  /\ num_mercy_kmers' = num_mercy_kmers + add
           /\ credited' = Append(credited, add)
    /\ aux_pc' = "reads"
    /\ UNCHANGED << run_vars, other_vars, mercy_params, cur_read, window,
                    cur_read_kmers_all_unique, queried >>

\* Line 348.
ReturnMercy ==
    /\ aux_pc = "reads"
    /\ cur_read = Len(reads)
    /\ aux_pc' = "returned"
    /\ UNCHANGED << run_vars, other_vars, mercy_params, num_mercy_kmers, cur_read, window,
                    cur_read_kmers_all_unique, queried, credited >>

MercyNext ==
    \/ NextRead
    \/ QueryWindow
    \/ WindowsDone
    \/ CreditRead
    \/ ReturnMercy

SpecMercy == MercyInit /\ [][MercyNext]_vars


\* ------------------------------------------------------- count_mercy_kmers

\* Largest number of reads handed to count_mercy_kmers.
MaxReads == 3

\* Largest chunk_size.
MaxChunkSize == 2

\* Largest num_threads of the pool.
MaxThreads == 2

\* Lines 337-343 for one read: the windows from i on, up to the first whose
\* count is not 1; the flag the loop leaves.
RECURSIVE ScanRead(_, _, _, _, _)
ScanRead(db, seq, i, n, k) ==
    IF i >= n THEN TRUE
    ELSE IF AllUniqueAfter(db, seq, i, k) THEN ScanRead(db, seq, i + 1, n, k)
    ELSE FALSE

\* Lines 329-348: what one call returns for its chunk.
RECURSIVE count_mercy_kmers_aux(_, _, _, _)
count_mercy_kmers_aux(chunk, db, length, k) ==
    IF chunk = <<>> THEN 0
    ELSE (IF ScanRead(db, Head(chunk), 0, length - k + 1, k) THEN length - k + 1 ELSE 0)
         + count_mercy_kmers_aux(Tail(chunk), db, length, k)

\* The chunks that are whole only: a last chunk of fewer reads is dropped.
ChunkWholeOnly(list, x, size) ==
    IF x + size <= Len(list) THEN SubSeq(list, x + 1, x + size) ELSE <<>>

\* reads[x : x + chunk_size], line 360.
Chunk(list, x, size) == SubSeq(list, x + 1, Min(x + size, Len(list)))

\* sum() that takes the chunk of a worker that failed as worth nothing.
SumOutcomeSkipFailed(total, result) ==
    [raised |-> FALSE, total |-> total + result.value]

\* Line 366, one step of sum(): the next result of imap_unordered is added,
\* or, when it is the exception of its worker, raised again.
SumOutcome(total, result) ==
    IF result.ok THEN [raised |-> FALSE, total |-> total + result.value]
    ELSE [raised |-> TRUE, total |-> total]

\* The reads the pool scans, n bases each: ACGTAC.. and TTTTTT..
ScanReads(n) == { Dna(1, n), [i \in 1..n |-> "T"] }

\* count_mercy_kmers is about to be called by main, line 417, for reads of
\* two windows each, on a machine whose engine worked so far.
PoolInit ==
    /\ pc = "solid_counted"
    /\ kmer_length = KmerLength
    /\ read_length = KmerLength + 1
    /\ \E n \in 1..MaxReads : reads \in [1..n -> ScanReads(read_length)]
    /\ jellyfish_db \in [PoolMers(read_length, kmer_length) -> 1..2]
    /\ num_threads \in 1..MaxThreads
    /\ chunk_size \in 1..MaxChunkSize
    /\ next_chunk = 0
    /\ workers = <<>>
    /\ chunks_num_mercy_kmers = <<>>
    /\ summed = 0
    /\ final_num_mercy_kmers = 0
    /\ num_mercy_kmers = 0
    /\ cur_read = 0
    /\ window = 0
    /\ cur_read_kmers_all_unique = TRUE
    /\ aux_pc = "idle"
    /\ queried = <<>>
    /\ credited = <<>>
    /\ selected_reads = [i \in DOMAIN reads |->
                            FastqEntry(<<"r">>, reads[i], Quals(read_length))]
    /\ input_fastq_files = << <<>>, <<>> >>
    /\ target_num_reads = Len(reads)
    /\ target_read_length = read_length
    /\ fastq_fi = <<1, 0>>
    /\ total_num_reads = Len(reads)
    /\ num_Ns_reads_ignored = 0
    /\ num_too_short_reads_ignored = 0
    /\ warned = FALSE
    /\ output_fastq_file = <<>>
    /\ output_stats_file = <<>>
    /\ jellyfish_db_file = TRUE
    /\ parsed = <<>>
    /\ emitted = <<>>
    /\ selected_from = <<>>
    /\ draws = <<>>
    /\ incl_prob = <<>>
    /\ argv = <<>>
    /\ sample_name = DefaultSampleName
    /\ opened = {"-s"}
    /\ engine = WorkingEngine
    /\ calls = <<"probe", "count", "stats", "stats -L 2">>
    /\ num_distinct_kmers = StatsCount(engine.distinct).val
    /\ num_solid_kmers = StatsCount(engine.solid).val

\* What the pool leaves alone.
pool_frame == << params, sampler_vars, cli_vars, warned, output_fastq_file,
                 output_stats_file, jellyfish_db_file, engine, num_distinct_kmers,
                 num_solid_kmers, reads, jellyfish_db, read_length, kmer_length,
                 cur_read, window, cur_read_kmers_all_unique, aux_pc, queried,
                 credited, chunk_size >>

\* Lines 359-364: the generator of the chunks is made and the pool of
\* num_threads processes is started, every process idle.
PoolOpen ==
    /\ pc = "solid_counted"
    /\ calls' = Append(calls, "query")
    /\ workers' = [w \in 1..num_threads |-> -1]
    /\ next_chunk' = 0
    /\ pc' = "pool"
    /\ UNCHANGED << pool_frame, chunks_num_mercy_kmers, summed, final_num_mercy_kmers,
                    num_mercy_kmers >>

\* An idle process takes the next chunk of the generator: x in
\* range(0, len(reads), chunk_size), line 361.
WorkerTake(w) ==
    /\ pc = "pool"
    /\ workers[w] = -1
    /\ next_chunk < Len(reads)
    /\ workers' = [workers EXCEPT ![w] = next_chunk]
    /\ next_chunk' = next_chunk + chunk_size
    /\ UNCHANGED << pool_frame, pc, calls, chunks_num_mercy_kmers, summed,
                    final_num_mercy_kmers, num_mercy_kmers >>

\* The process returns from count_mercy_kmers_aux: its result joins those of
\* imap_unordered, behind the results of the chunks finished before it.
WorkerFinish(w) ==
    /\ pc = "pool"
    /\ workers[w] >= 0
    /\ LET chunk == Chunk(reads, workers[w], chunk_size)
       IN  chunks_num_mercy_kmers' = Append(chunks_num_mercy_kmers,
               [x |-> workers[w], reads |-> chunk, ok |-> TRUE,
                value |-> count_mercy_kmers_aux(chunk, jellyfish_db, read_length,
                                                kmer_length)])
    /\ workers' = [workers EXCEPT ![w] = -1]
    /\ UNCHANGED << pool_frame, pc, calls, next_chunk, summed, final_num_mercy_kmers,
                    num_mercy_kmers >>

\* The process cannot open the index (line 332) or a lookup fails (line 340):
\* the exception is the result of its chunk.
WorkerRaise(w) ==
    /\ pc = "pool"
    /\ workers[w] >= 0
    /\ chunks_num_mercy_kmers' = Append(chunks_num_mercy_kmers,
           [x |-> workers[w], reads |-> Chunk(reads, workers[w], chunk_size),
            ok |-> FALSE, value |-> 0])
    /\ workers' = [workers EXCEPT ![w] = -1]
    /\ UNCHANGED << pool_frame, pc, calls, next_chunk, summed, final_num_mercy_kmers,
                    num_mercy_kmers >>

\* Line 366: sum() takes the next result; an exception leaves the with block,
\* which ends the pool, and count_mercy_kmers and main with it.
SumNext ==
    /\ pc = "pool"
    /\ summed < Len(chunks_num_mercy_kmers)
    /\ LET step == SumOutcome(final_num_mercy_kmers, chunks_num_mercy_kmers[summed + 1])
       IN  /\ final_num_mercy_kmers' = step.total
           /\ summed' = summed + 1
           /\ pc' = IF step.raised THEN "raised" ELSE "pool"
    /\ UNCHANGED << pool_frame, calls, next_chunk, workers, chunks_num_mercy_kmers,
                    num_mercy_kmers >>

\* Lines 366-368 and 417: every chunk of the generator has been taken and its
\* result summed; the total is returned to main.
PoolReturn ==
    /\ pc = "pool"
    /\ next_chunk >= Len(reads)
    /\ \A w \in DOMAIN workers : workers[w] = -1
    /\ summed = Len(chunks_num_mercy_kmers)
    /\ num_mercy_kmers' = final_num_mercy_kmers
    /\ pc' = "counted"
    /\ UNCHANGED << pool_frame, calls, next_chunk, workers, chunks_num_mercy_kmers,
                    summed, final_num_mercy_kmers >>

PoolNext ==
    \/ PoolOpen
    \/ \E w \in DOMAIN workers : WorkerTake(w)
    \/ \E w \in DOMAIN workers : WorkerFinish(w)
    \/ \E w \in DOMAIN workers : WorkerRaise(w)
    \/ SumNext
    \/ PoolReturn
    \/ WriteStats

SpecPool == PoolInit /\ [][PoolNext]_vars


\* ------------------------------------------- the counts of an exact index

\* The canonical k-mers of the reads of list, length bases each.
MersOf(list, length, k) ==
    { Canonical(Window(list[r], i, k)) : r \in DOMAIN list, i \in 0..(length - k) }

\* What jellyfish count -C -m k (lines 273-286) holds for the reads it is
\* fed when it counts exactly: for each canonical k-mer, the number of
\* windows of the reads that are this k-mer or its reverse complement.
ExactIndex(list, length, k) ==
    [m \in MersOf(list, length, k) |->
        Cardinality({ w \in (DOMAIN list) \X (0..(length - k)) :
                        Canonical(Window(list[w[1]], w[2], k)) = m })]

\* The engine whose summaries are those of the index: jellyfish stats counts
\* the k-mers the index holds, jellyfish stats -L 2 those held twice or more.
ExactEngine(index) ==
    [WorkingEngine EXCEPT
        !.distinct = StatsLine(Cardinality(DOMAIN index)),
        !.solid = StatsLine(Cardinality({ m \in DOMAIN index : index[m] >= 2 }))]

\* main has its reservoir, of reads of at least kmer_length bases, and is
\* about to build the index, which will hold the exact counts of these reads.
ExactInit ==
    /\ pc = "selected_written"
    /\ kmer_length = KmerLength
    /\ read_length \in KmerLength..(KmerLength + 1)
    /\ \E n \in 1..MaxReads : reads \in [1..n -> MercyPool(read_length)]
    /\ jellyfish_db = ExactIndex(reads, read_length, kmer_length)
    /\ engine = ExactEngine(jellyfish_db)
    /\ num_threads \in 1..MaxThreads
    /\ chunk_size \in 1..MaxChunkSize
    /\ next_chunk = 0
    /\ workers = <<>>
    /\ chunks_num_mercy_kmers = <<>>
    /\ summed = 0
    /\ final_num_mercy_kmers = 0
    /\ num_mercy_kmers = 0
    /\ cur_read = 0
    /\ window = 0
    /\ cur_read_kmers_all_unique = TRUE
    /\ aux_pc = "idle"
    /\ queried = <<>>
    /\ credited = <<>>
    /\ selected_reads = [i \in DOMAIN reads |->
                            FastqEntry(<<"r">>, reads[i], Quals(read_length))]
    /\ input_fastq_files = << <<>>, <<>> >>
    /\ target_num_reads = Len(reads)
    /\ target_read_length = read_length
    /\ fastq_fi = <<1, 0>>
    /\ total_num_reads = Len(reads)
    /\ num_Ns_reads_ignored = 0
    /\ num_too_short_reads_ignored = 0
    /\ warned = FALSE
    /\ output_fastq_file = <<>>
    /\ output_stats_file = <<>>
    /\ jellyfish_db_file = FALSE
    /\ parsed = <<>>
    /\ emitted = <<>>
    /\ selected_from = <<>>
    /\ draws = <<>>
    /\ incl_prob = <<>>
    /\ argv = <<>>
    /\ sample_name = DefaultSampleName
    /\ opened = {"-s"}
    /\ calls = <<"probe">>
    /\ num_distinct_kmers = 0
    /\ num_solid_kmers = 0

ExactNext ==
    \/ create_jf_db
    \/ count_distinct_kmers
    \/ count_solid_kmers
    \/ PoolNext

SpecExact == ExactInit /\ [][ExactNext]_vars


\* ------------------------------------------------------------------ claims

RECURSIVE SumSeq(_)
SumSeq(q) == IF q = <<>> THEN 0 ELSE Head(q) + SumSeq(Tail(q))

Range(q) == { q[i] : i \in DOMAIN q }

\* The pass is over without a format error.
PassEnded ==
    pc \in {"post", "exit_empty", "exit_no_reads", "subsampled", "selected_written",
            "indexed", "distinct_counted", "solid_counted", "counted", "done", "raised"}

Fatal == pc \in {"exit_empty", "exit_no_reads"}

Continued ==
    pc \in {"subsampled", "selected_written", "indexed", "distinct_counted",
            "solid_counted", "counted", "done", "raised"}

\* The lines of the statistics file, as they read back.
StatsLines == Lines(output_stats_file)

\* The field of the data row under the column called name.
StatsField(name) ==
    LET header == Split(RStrip(StatsLines[1]), TAB)
        row == Split(RStrip(StatsLines[2]), TAB)
        c == CHOOSE i \in DOMAIN header : header[i] = <<name>>
    IN  row[c]

\* The read fastq_reader yielded i-th.
EmittedRead(i) == Trimmed(parsed[emitted[i]], target_read_length)

\* C1: every slot index is drawn from 0 .. F-1, F the number of reads
\* yielded so far, the new one included: the records dropped for an N or for
\* their length do not widen the range.
C1_DrawOverFilteredReads ==
    \A d \in DOMAIN draws : draws[d].range = draws[d].seen

\* C2: once the pass is over every read yielded is held with probability
\* R/N when N > R and 1 otherwise, N the number of reads yielded and R the
\* target.
C2_UniformInclusion ==
    pc = "post" =>
        \A i \in DOMAIN incl_prob :
            IF Len(emitted) > target_num_reads
            THEN incl_prob[i][1] * Len(emitted) = target_num_reads * incl_prob[i][2]
            ELSE incl_prob[i][1] = incl_prob[i][2]

\* A file of the list ends inside a record.
CutFile(f) == Len(input_fastq_files[f]) % 4 # 0

\* C3: when a file of the list, whatever its place, ends inside a record, no
\* record is built from lines of two files, nothing is read past the cut,
\* the pass never ends normally and no statistics are written.
C3_CutFileAborts ==
    (\E f \in DOMAIN input_fastq_files : CutFile(f)) =>
        /\ \A r \in DOMAIN parsed :
              /\ Cardinality(parsed[r].files) = 1
              /\ \A f \in parsed[r].files : \A g \in 1..(f - 1) : ~CutFile(g)
        /\ ~PassEnded
        /\ output_stats_file = <<>>

\* C4: a step that reads a record adds one to total_num_reads and takes one
\* of three ways: an N in the sequence adds one to num_Ns_reads_ignored
\* only, whatever the length; else a sequence shorter than read_length adds
\* one to num_too_short_reads_ignored only; else the record is yielded and
\* neither of the two counters moves.
C4_OneOutcomePerRecord ==
    [][ parsed' # parsed =>
          LET rec == parsed'[Len(parsed')]
          IN  /\ Len(parsed') = Len(parsed) + 1
              /\ total_num_reads' = total_num_reads + 1
              /\ HasN(rec.seq) =>
                    /\ num_Ns_reads_ignored' = num_Ns_reads_ignored + 1
                    /\ num_too_short_reads_ignored' = num_too_short_reads_ignored
                    /\ emitted' = emitted
              /\ ~HasN(rec.seq) /\ Len(rec.seq) < target_read_length =>
                    /\ num_Ns_reads_ignored' = num_Ns_reads_ignored
                    /\ num_too_short_reads_ignored' = num_too_short_reads_ignored + 1
                    /\ emitted' = emitted
              /\ ~HasN(rec.seq) /\ Len(rec.seq) >= target_read_length =>
                    /\ num_Ns_reads_ignored' = num_Ns_reads_ignored
                    /\ num_too_short_reads_ignored' = num_too_short_reads_ignored
                    /\ emitted' = Append(emitted, Len(parsed'))
      ]_vars

\* The pass is over; a record both short and with an N was counted for its
\* N only, another was counted as too short, a third was yielded.
C4_Witness ==
    /\ pc = "post"
    /\ \E r \in DOMAIN parsed :
          HasN(parsed[r].seq) /\ Len(parsed[r].seq) < target_read_length
    /\ num_Ns_reads_ignored = 1
    /\ num_too_short_reads_ignored = 1
    /\ Len(emitted) = 1
    /\ total_num_reads = 3

\* C5: every read the reservoir holds has exactly read_length bases, the
\* first read_length bases of the record it was made from, and no N; that
\* record has no N and is not shorter than read_length.
C5_ReservoirFiltered ==
    \A s \in DOMAIN selected_reads :
        LET rec == parsed[selected_from[s]]
        IN  /\ Len(selected_reads[s].seq) = target_read_length
            /\ selected_reads[s].seq = SubSeq(rec.seq, 1, target_read_length)
            /\ ~HasN(selected_reads[s].seq)
            /\ ~HasN(rec.seq)
            /\ Len(rec.seq) >= target_read_length

\* The run is over; a record with an N was dropped, and a read drawn into
\* the reservoir in place of another comes from a longer record.
C5_Witness ==
    /\ pc = "done"
    /\ num_Ns_reads_ignored > 0
    /\ \E d \in DOMAIN draws : draws[d].ind < target_num_reads
    /\ \E s \in DOMAIN selected_reads :
          /\ Len(parsed[selected_from[s]].seq) > target_read_length
          /\ selected_from[s] = Len(parsed)

\* C6: the quality of every read yielded has exactly read_length
\* characters, as many as its sequence.
C6_QualityLength ==
    /\ \A i \in DOMAIN emitted :
          Len(EmittedRead(i).qual) = target_read_length
    /\ \A s \in DOMAIN selected_reads :
          /\ Len(selected_reads[s].qual) = target_read_length
          /\ Len(selected_reads[s].qual) = Len(selected_reads[s].seq)

\* The whole records the input files hold.
WellFormedRecords ==
    SumSeq([f \in DOMAIN input_fastq_files |-> Len(input_fastq_files[f]) \div 4])

\* The reads yielded that the reservoir does not hold.
NotHeld == { i \in DOMAIN emitted : emitted[i] \notin Range(selected_from) }

\* C7: after every record total_num_reads is the sum of the reads held, the
\* two counters of dropped records and the reads yielded that are not held;
\* when the pass is over it is the number of whole records of the files.
C7_CounterSum ==
    /\ total_num_reads = Len(selected_reads) + num_Ns_reads_ignored
                            + num_too_short_reads_ignored + Cardinality(NotHeld)
    /\ pc = "post" => total_num_reads = WellFormedRecords

\* C8: a pass that yielded no read ends the run in an error, with no reads
\* written, no index and no statistics; a pass that yielded fewer reads than
\* the target, and at least one, does not: the warning is logged, the
\* reservoir holds every read yielded, in order, and main goes on.
C8_EmptyFatalShortfallWarned ==
    /\ Continued => Len(emitted) > 0
    /\ pc = "post" /\ Len(emitted) = 0 => ENABLED (ExitEmptyInput \/ ExitNoReads)
    /\ Fatal =>
          /\ output_fastq_file = <<>>
          /\ ~jellyfish_db_file
          /\ output_stats_file = <<>>
    /\ PassEnded /\ 0 < Len(emitted) /\ Len(emitted) < target_num_reads =>
          /\ ~Fatal
          /\ pc = "post" => ENABLED ReturnSelected
          /\ Continued => warned
          /\ selected_reads = [i \in DOMAIN emitted |-> EmittedRead(i)]
          /\ pc # "raised"
          /\ pc \in {"subsampled", "selected_written", "solid_counted", "counted"} =>
                ENABLED (WriteSelectedReads \/ create_jf_db \/ count_mercy_kmers
                            \/ WriteStats)
          /\ pc = "indexed" => StatsCount(engine.distinct).ok
          /\ pc = "distinct_counted" => StatsCount(engine.solid).ok
          /\ pc = "done" => StatsField("num_selected_reads") = Str(Len(emitted))

\* The statistics are written for a run that yielded one read against a
\* target of two, dropped other records, and logged the warning.
C8_Witness ==
    /\ pc = "done"
    /\ warned
    /\ Len(emitted) = 1
    /\ target_num_reads = 2
    /\ total_num_reads > 1
    /\ output_stats_file # <<>>

\* The pass over the records from pos on, computed from the files, the
\* target, the read length and the slot indices drawn, in order.
RECURSIVE ResampleFrom(_, _, _, _, _, _)
ResampleFrom(files, target, length, inds, pos, st) ==
    LET r == ReadRecord(files, pos)
        counted == [st EXCEPT !.total = @ + 1]
    IN  IF r.status = "eof" THEN [st EXCEPT !.status = "ended"]
        ELSE IF r.status = "truncated" THEN [st EXCEPT !.status = "truncated"]
        ELSE IF \E i \in DOMAIN r.rec.seq : r.rec.seq[i] = "N"
        THEN ResampleFrom(files, target, length, inds, r.pos,
                          [counted EXCEPT !.Ns = @ + 1])
        ELSE IF Len(r.rec.seq) < length
        THEN ResampleFrom(files, target, length, inds, r.pos,
                          [counted EXCEPT !.short = @ + 1])
        ELSE LET read == [name |-> r.rec.name,
                          seq |-> SubSeq(r.rec.seq, 1, length),
                          qual |-> Slice(r.rec.qual, length)]
             IN  IF Len(st.held) < target
                 THEN ResampleFrom(files, target, length, inds, r.pos,
                                   [counted EXCEPT !.held = Append(@, read)])
                 ELSE IF st.drawn >= Len(inds)
                 THEN [st EXCEPT !.status = "undrawn"]
                 ELSE LET j == inds[st.drawn + 1]
                      IN  ResampleFrom(files, target, length, inds, r.pos,
                              [counted EXCEPT
                                 !.drawn = @ + 1,
                                 !.held = IF j < target
                                          THEN [k \in DOMAIN @ |->
                                                  IF k = j + 1 THEN read ELSE @[k]]
                                          ELSE @])

Resample(files, target, length, inds) ==
    ResampleFrom(files, target, length, inds, <<1, 0>>,
                 [held |-> <<>>, total |-> 0, Ns |-> 0, short |-> 0, drawn |-> 0,
                  status |-> "running"])

\* C9: when the pass is over, or cut by a format error, the reservoir, slot
\* by slot, and the three counters are decided by the files, the target, the
\* read length and the random draws alone: runs that agree on these end with
\* the same reservoir and the same counters, whatever else differs between
\* them (the worker count is not one of them).
C9_DecidedByInputAndDraws ==
    pc \in {"post", "exit_truncated"} =>
        LET res == Resample(input_fastq_files, target_num_reads, target_read_length,
                            [d \in DOMAIN draws |-> draws[d].ind])
        IN  /\ res.status = IF pc = "post" THEN "ended" ELSE "truncated"
            /\ res.drawn = Len(draws)
            /\ selected_reads = res.held
            /\ total_num_reads = res.total
            /\ num_Ns_reads_ignored = res.Ns
            /\ num_too_short_reads_ignored = res.short

\* The pass is over after two draws, and the reservoir no longer holds the
\* reads it was filled with.
C9_Witness ==
    /\ pc = "post"
    /\ Len(draws) >= 2
    /\ \E s \in DOMAIN selected_from : selected_from[s] # emitted[s]


\* The occurrence count of window i of read r of the chunk.
WindowCount(r, i) ==
    Lookup(jellyfish_db, Canonical(Window(reads[r], i, kmer_length)))

Windows == 0..(read_num_kmers - 1)

AllSingleton(r) == \A i \in Windows : WindowCount(r, i) = 1

\* The first window of read r whose count is not 1.
FirstOther(r) ==
    CHOOSE i \in Windows :
        /\ WindowCount(r, i) # 1
        /\ \A j \in 0..(i - 1) : WindowCount(r, j) = 1

\* C10: count_mercy_kmers_aux looks the windows of a read up from left to
\* right; a read adds read_length - kmer_length + 1 to the total when every
\* one of its windows has count 1 and adds 0 otherwise; the first window
\* whose count is not 1 is the last one looked up; the total is the sum of
\* what the reads added.
C10_MercyShortCircuit ==
    /\ \A r \in DOMAIN queried :
          \A j \in DOMAIN queried[r] : queried[r][j] = j - 1
    /\ \A r \in DOMAIN credited :
          /\ credited[r] = IF AllSingleton(r) THEN read_num_kmers ELSE 0
          /\ AllSingleton(r) => Len(queried[r]) = Cardinality(Windows)
          /\ ~AllSingleton(r) => Len(queried[r]) = FirstOther(r) + 1
    /\ num_mercy_kmers = SumSeq(credited)

\* The scan is over; one read had only counts of 1 and added its windows,
\* another had a first window of count >= 2 before a window of count 1: it
\* added nothing and only its first window was looked up.
C10_Witness ==
    /\ aux_pc = "returned"
    /\ read_num_kmers > 1
    /\ \E a, b \in DOMAIN credited :
          /\ AllSingleton(a) /\ credited[a] = read_num_kmers
          /\ WindowCount(b, 0) >= 2
          /\ \E i \in Windows : i > 0 /\ WindowCount(b, i) = 1
          /\ credited[b] = 0
          /\ queried[b] = <<0>>


\* The selected reads were written to the -o file.
ReadsWritten ==
    /\ pc \in {"selected_written", "indexed", "distinct_counted", "solid_counted",
              "counted", "done"}
    /\ output_fastq_file # <<>>

\* C16: the -o file holds four lines for each read of the reservoir, in the
\* order of the slots: name, sequence, "+", quality; fastq_reader run over
\* that file with the same read_length yields the reservoir, slot by slot,
\* and drops no record.
C16_OutputReadsBack ==
    ReadsWritten =>
        LET lines == Lines(output_fastq_file)
            back == Resample(<<lines>>, Len(selected_reads), target_read_length, <<>>)
        IN  /\ Len(lines) = 4 * Len(selected_reads)
            /\ \A s \in DOMAIN selected_reads :
                  /\ lines[4 * s - 3] = selected_reads[s].name \o <<NL>>
                  /\ lines[4 * s - 2] = selected_reads[s].seq \o <<NL>>
                  /\ lines[4 * s - 1] = <<"+", NL>>
                  /\ lines[4 * s] = selected_reads[s].qual \o <<NL>>
            /\ back.status = "ended"
            /\ back.held = selected_reads
            /\ back.total = Len(selected_reads)
            /\ back.Ns = 0
            /\ back.short = 0

\* Two reads were written, the first slot holding a read that arrived after
\* the read of the second, one of them with a quality shorter than its
\* sequence.
C16_Witness ==
    /\ ReadsWritten
    /\ Len(selected_reads) = 2
    /\ selected_from[1] > selected_from[2]
    /\ \E s \in DOMAIN selected_reads :
          Len(selected_reads[s].qual) < Len(selected_reads[s].seq)

\* C17: until a slot is drawn the reservoir is the first min(R, N) reads
\* yielded, slot p holding the p-th of them, N the reads yielded so far and
\* R the target; a pass that yielded no more than R reads ends without a
\* draw, the reservoir holding every read yielded, in order.
C17_FillInArrivalOrder ==
    /\ draws = <<>> =>
          /\ selected_reads =
                [p \in 1..Min(target_num_reads, Len(emitted)) |-> EmittedRead(p)]
          /\ selected_from =
                [p \in 1..Min(target_num_reads, Len(emitted)) |-> emitted[p]]
    /\ PassEnded /\ Len(emitted) <= target_num_reads =>
          /\ draws = <<>>
          /\ selected_reads = [p \in DOMAIN emitted |-> EmittedRead(p)]

\* The pass is over without a draw; the two slots hold reads of the two
\* files, and a record was dropped on the way.
C17_Witness ==
    /\ pc = "post"
    /\ draws = <<>>
    /\ Len(selected_reads) = 2
    /\ parsed[selected_from[1]].files = {1}
    /\ parsed[selected_from[2]].files = {2}
    /\ num_Ns_reads_ignored + num_too_short_reads_ignored > 0

\* C18: a step that draws index j for a new read: when j < R, j is a slot of
\* the reservoir, that slot takes the new read, the other slots and the
\* length are as before; when j >= R the reservoir is as before.
C18_ReplacementFrame ==
    [][ draws' # draws =>
          LET j == draws'[Len(draws')].ind
              new_read == Trimmed(parsed'[Len(parsed')], target_read_length)
          IN  IF j < target_num_reads
              THEN /\ j + 1 \in DOMAIN selected_reads
                   /\ Len(selected_reads') = Len(selected_reads)
                   /\ selected_reads'[j + 1] = new_read
                   /\ selected_from'[j + 1] = Len(parsed')
                   /\ \A s \in DOMAIN selected_reads :
                         s # j + 1 =>
                             /\ selected_reads'[s] = selected_reads[s]
                             /\ selected_from'[s] = selected_from[s]
              ELSE /\ selected_reads' = selected_reads
                   /\ selected_from' = selected_from
      ]_vars

\* One draw fell on a slot and another fell beyond the reservoir.
C18_Witness ==
    /\ target_num_reads >= 1
    /\ \E d, e \in DOMAIN draws :
          /\ draws[d].ind < target_num_reads
          /\ draws[e].ind >= target_num_reads

\* The records of the stream of lines of the files from pos on, four lines
\* each, up to the end or to a record that is cut.
RECURSIVE StreamRecords(_, _)
StreamRecords(files, pos) ==
    LET r == ReadRecord(files, pos)
    IN  IF r.status = "record" THEN <<r.rec>> \o StreamRecords(files, r.pos)
        ELSE <<>>

\* C20: the records built, by the generator of the fill and then by the
\* generator of the loop, are the records of the stream in order, each one
\* once and counted once, all of them when the pass is over; the reads
\* yielded are the records that pass the two tests, in order; the first R
\* go to the fill and each later one has its draw, so that the draws number
\* max(0, N - R).  Stated of the states of the pass, up to its end.
C20_HandOff ==
    pc \in {"fill", "replace", "post", "exit_truncated"} =>
    LET stream == StreamRecords(input_fastq_files, <<1, 0>>)
    IN  /\ Len(parsed) <= Len(stream)
        /\ parsed = SubSeq(stream, 1, Len(parsed))
        /\ total_num_reads = Len(parsed)
        /\ pc = "post" => parsed = stream
        /\ \A e \in DOMAIN emitted :
              /\ emitted[e] \in DOMAIN parsed
              /\ e > 1 => emitted[e - 1] < emitted[e]
        /\ \A i \in DOMAIN parsed :
              (Outcome(parsed[i], target_read_length) = "emit")
                  <=> (\E e \in DOMAIN emitted : emitted[e] = i)
        /\ Len(emitted) = Min(target_num_reads, Len(emitted)) + Len(draws)
        /\ \A d \in DOMAIN draws : draws[d].seen = target_num_reads + d

\* The pass is over: the fill took one read, records were dropped before and
\* after the hand-off, and the later read had its draw.
C20_Witness ==
    /\ pc = "post"
    /\ target_num_reads = 1
    /\ Len(emitted) = 2
    /\ Len(draws) = 1
    /\ Len(parsed) = 3
    /\ emitted[1] = 1
    /\ emitted[2] = 3



\* The integer printed under the column called name.
StatsNumber(name) == ParseInt(StatsField(name)).val

\* C19: in every state of the pass the reservoir holds min(R, reads yielded
\* so far) reads, never more than R; the statistics of a run that ends
\* report num_selected_reads = min(target_num_reads, total_num_reads -
\* num_Ns_reads_ignored - num_too_short_reads_ignored), each as printed.
C19_ReservoirLength ==
    /\ Len(selected_reads) = Min(target_num_reads, Len(emitted))
    /\ Len(selected_reads) <= target_num_reads
    /\ pc = "done" =>
          /\ ParseInt(StatsField("num_selected_reads")).ok
          /\ StatsNumber("num_selected_reads") =
                Min(StatsNumber("target_num_reads"),
                    StatsNumber("total_num_reads") - StatsNumber("num_Ns_reads_ignored")
                        - StatsNumber("num_too_short_reads_ignored"))
          /\ StatsNumber("num_selected_reads") = Len(selected_reads)

\* The statistics are written for a run that dropped a record, drew a slot
\* for a read, and reports fewer reads selected than read.
C19_Witness ==
    /\ pc = "done"
    /\ draws # <<>>
    /\ num_Ns_reads_ignored + num_too_short_reads_ignored > 0
    /\ StatsNumber("num_selected_reads") = 1
    /\ StatsNumber("total_num_reads") = 3



\* The uses made of the index: the two summaries and the mercy scan.
IndexUses == {"stats", "stats -L 2", "query"}

\* C13: when the build of the index fails, create_jf_db ends in an error:
\* the engine is run once and not again, no handle is returned, and neither
\* a summary nor the mercy scan is run against the index.
C13_FailedBuildStops ==
    engine.build # "ok" =>
        /\ Cardinality({ c \in DOMAIN calls : calls[c] = "count" }) <= 1
        /\ ~jellyfish_db_file
        /\ "count" \in Range(calls) => pc = "raised"
        /\ Range(calls) \cap IndexUses = {}

\* The run ended on the option at the head of argv, refused for its thread
\* count or for its k-mer length.
InvalidParameter ==
    /\ pc = "exit_usage"
    /\ argv # <<>>
    /\ \/ Head(argv).opt = "-k"
       \/ Head(argv).opt = "-t" /\ ParseInt(Head(argv).val).ok

\* The run ended on an invalid parameter or on the engine missing.
FailedFast == InvalidParameter \/ pc = "exit_no_program"

\* C14: a run that ends on an option that is refused, or on the engine
\* missing, has read no record, and has neither opened (created or emptied)
\* nor written the statistics file and the file of the selected reads.
C14_FailFastNothingWritten ==
    FailedFast =>
        /\ parsed = <<>>
        /\ fastq_fi = <<1, 0>>
        /\ total_num_reads = 0
        /\ opened = {}
        /\ output_stats_file = <<>>
        /\ output_fastq_file = <<>>

\* C15: the statistics file is written once the three counts are obtained
\* and not before: it then holds two lines, the eleven column names and a
\* row of eleven fields separated by tabs, each the value of its column; a
\* run that raised at a summary or at the mercy scan has written none of it.
C15_StatsRecord ==
    /\ output_stats_file # <<>> =>
          /\ pc = "done"
          /\ IndexUses \subseteq Range(calls)
          /\ num_distinct_kmers = StatsCount(engine.distinct).val
          /\ num_solid_kmers = StatsCount(engine.solid).val
          /\ num_mercy_kmers = engine.mercy[1]
          /\ Len(StatsLines) = 2
          /\ Split(RStrip(StatsLines[1]), TAB) =
                [c \in DOMAIN StatsHeader |-> <<StatsHeader[c]>>]
          /\ LET row == Split(RStrip(StatsLines[2]), TAB)
             IN  /\ Len(row) = 11
                 /\ row[1] = sample_name
                 /\ row[2] = Str(total_num_reads)
                 /\ row[3] = Str(num_Ns_reads_ignored)
                 /\ row[4] = Str(num_too_short_reads_ignored)
                 /\ row[5] = Str(target_num_reads)
                 /\ row[6] = Str(Len(selected_reads))
                 /\ row[7] = Str(target_read_length)
                 /\ row[8] = Str(kmer_length)
                 /\ row[9] = Str(num_distinct_kmers)
                 /\ row[10] = Str(num_solid_kmers)
                 /\ row[11] = Str(num_mercy_kmers)
    /\ pc = "raised" => output_stats_file = <<>>



\* What read i of the reads adds when it is scanned alone.
ReadCredit(i) ==
    IF \A j \in 0..(read_length - kmer_length) :
          Lookup(jellyfish_db, Canonical(Window(reads[i], j, kmer_length))) = 1
    THEN read_length - kmer_length + 1
    ELSE 0

\* The results whose chunk holds read i.
Holding(i) ==
    { c \in DOMAIN chunks_num_mercy_kmers :
        /\ chunks_num_mercy_kmers[c].x < i
        /\ i <= chunks_num_mercy_kmers[c].x + Len(chunks_num_mercy_kmers[c].reads)
        /\ chunks_num_mercy_kmers[c].reads[i - chunks_num_mercy_kmers[c].x] = reads[i] }

\* C11: whatever the number of processes, the chunk size and the order in
\* which the chunks were finished, the total count_mercy_kmers returns is the
\* sum over the reads of what each adds alone, which is what one call on the
\* whole list returns; every read is in exactly one chunk, each chunk a run
\* of at most chunk_size consecutive reads; and reads that are all made of
\* singletons give read_length - k + 1 each.
C11_ParallelIsSequential ==
    pc \in {"counted", "done"} =>
        /\ num_mercy_kmers = SumSeq([i \in DOMAIN reads |-> ReadCredit(i)])
        /\ num_mercy_kmers =
               count_mercy_kmers_aux(reads, jellyfish_db, read_length, kmer_length)
        /\ \A i \in DOMAIN reads : Cardinality(Holding(i)) = 1
        /\ \A c \in DOMAIN chunks_num_mercy_kmers :
               /\ chunks_num_mercy_kmers[c].reads # <<>>
               /\ Len(chunks_num_mercy_kmers[c].reads) <= chunk_size
        /\ (\A m \in DOMAIN jellyfish_db : jellyfish_db[m] = 1) =>
               num_mercy_kmers = Len(reads) * (read_length - kmer_length + 1)

\* Two processes, a last chunk shorter than the others, the second chunk
\* finished before the first, and a total that is not zero.
C11_Witness ==
    /\ pc = "counted"
    /\ Len(workers) >= 2
    /\ Len(reads) % chunk_size # 0
    /\ Len(chunks_num_mercy_kmers) >= 2
    /\ chunks_num_mercy_kmers[1].x > chunks_num_mercy_kmers[2].x
    /\ num_mercy_kmers > 0
    /\ \E i \in DOMAIN reads : ReadCredit(i) = 0

\* A worker of the scan failed.
WorkerFailed == \E c \in DOMAIN chunks_num_mercy_kmers : ~chunks_num_mercy_kmers[c].ok

\* C12: once a worker has failed, count_mercy_kmers returns no value,
\* whatever the other workers finished: main gets no mercy count, the run
\* never gets past the scan, and the statistics file stays unwritten; the
\* failure, once sum() meets it, ends the run.
C12_FailedWorkerNoCount ==
    /\ WorkerFailed =>
          /\ pc \in {"pool", "raised"}
          /\ num_mercy_kmers = 0
          /\ output_stats_file = <<>>
    /\ pc = "raised" =>
          /\ WorkerFailed
          /\ ~chunks_num_mercy_kmers[summed].ok
    /\ (pc = "pool" /\ summed > 0) => chunks_num_mercy_kmers[summed].ok

\* The run ended on the failure of one worker after sum() had taken the
\* result, not zero, of the chunk of another.
C12_Witness ==
    /\ pc = "raised"
    /\ summed >= 2
    /\ final_num_mercy_kmers > 0
    /\ chunks_num_mercy_kmers[1].ok



\* The windows of kmer_length bases a read of read_length bases holds.
WindowsPresent ==
    IF read_length >= kmer_length THEN read_length - kmer_length + 1 ELSE 0

\* C21: the total count_mercy_kmers_aux returns is not negative and at most
\* the number of reads times the number of windows a read holds; it is 0
\* when a read is too short to hold a window.
C21_MercyTotalBounded ==
    aux_pc = "returned" =>
        /\ num_mercy_kmers >= 0
        /\ num_mercy_kmers <= Len(reads) * WindowsPresent
        /\ WindowsPresent = 0 => num_mercy_kmers = 0



\* The windows, read and position, of the reads that were credited.
CreditedWindows ==
    { w \in (DOMAIN reads) \X (0..(read_length - kmer_length)) : ReadCredit(w[1]) > 0 }

\* C22: with an index that holds the exact counts of the reservoir, and reads
\* of at least k bases, the solid k-mers are no more than the distinct ones,
\* and the mercy and solid k-mers together no more than the distinct ones:
\* the windows credited are k-mers of count 1, no two of them the same
\* canonical k-mer; the statistics printed say the same.
C22_MercyAndSolidWithinDistinct ==
    /\ pc \in {"solid_counted", "pool", "raised", "counted", "done"} =>
          num_solid_kmers <= num_distinct_kmers
    /\ pc \in {"counted", "done"} =>
          /\ num_mercy_kmers + num_solid_kmers <= num_distinct_kmers
          /\ num_mercy_kmers = Cardinality(CreditedWindows)
          /\ \A w \in CreditedWindows :
                Lookup(jellyfish_db, Canonical(Window(reads[w[1]], w[2], kmer_length))) = 1
          /\ \A v, w \in CreditedWindows :
                v # w => Canonical(Window(reads[v[1]], v[2], kmer_length))
                            # Canonical(Window(reads[w[1]], w[2], kmer_length))
    /\ pc = "done" =>
          /\ StatsNumber("num_solid_kmers") <= StatsNumber("num_distinct_kmers")
          /\ StatsNumber("num_mercy_kmers") + StatsNumber("num_solid_kmers")
                <= StatsNumber("num_distinct_kmers")

\* The statistics of a reservoir of a read of singletons and of reads that
\* share their k-mers: mercy and solid k-mers, and more distinct than either.
C22_Witness ==
    /\ pc = "done"
    /\ Len(reads) >= 3
    /\ num_mercy_kmers > 0
    /\ num_solid_kmers > 0
    /\ num_mercy_kmers + num_solid_kmers <= num_distinct_kmers
    /\ \E r \in DOMAIN reads : ReadCredit(r) = 0


=============================================================================
